---- MODULE Spec2Model ----
(***************************************************************************)
(* A model of the cache simulator of csim.c (src/csim.h): the globals that *)
(* hold the cache geometry, the flat array of cache lines, the statistics  *)
(* and the replay loop of main with the four routines it calls.            *)
(*                                                                         *)
(* An unsigned long is modelled by the set of the positions of its 1 bits  *)
(* (a subset of 0..63), so shifts and masks are exact at the full width.   *)
(* An unsigned int that the code decrements or increments is modelled by  *)
(* the signed reading of its 32 bit pattern: the value u is written u when *)
(* u < 2^31 and u - 2^32 otherwise, so 0 - 1 is written -1 (0xFFFFFFFF).   *)
(***************************************************************************)
EXTENDS Integers, Sequences, FiniteSets, TLC

(* ---------------------------------------------------------------------- *)
(* Program constants                                                       *)
(* ---------------------------------------------------------------------- *)
ADDRESS_BITS_LEN == 64
CACHE_INVALID_FLAG == 0
CACHE_VALID_FLAG == 1
EVICTION_RANK_VAL == 1
INT32_MAX == 2147483647

(* ---------------------------------------------------------------------- *)
(* Bounds of the model                                                     *)
(* ---------------------------------------------------------------------- *)
MaxE == 3
MaxTrace == 5
MaxFile == 5

\* Geometries of the replay specifications: -s, -b and -E of the command line.
SetBitCounts == {0, 1}
BlockBitCounts == {0, 1, 30}
LinesPerSet == 1..MaxE

VARIABLES
    iSetBitCount,        \* global: number of set index bits (-s)
    iCacheLinesPerSet,   \* global: lines per set (-E); iRecentAccessRankValue is equal to it
    iBlockBitCount,      \* global: number of block offset bits (-b)
    cacheImage,          \* main: the calloc'ed array, index set * E + slot
    inputTraceStats,     \* main: hits, misses, evictions, dirty_bytes, dirty_evictions
    pc,                  \* main: "replay" in the fscanf loop, "done" after printSummary
    memAccessType,       \* main: op character of the record last read
    memAddress,          \* main: address of the record last read
    iMemAccessTypeFlag,  \* main: 0 for a load, 1 for a store
    addrSVal,            \* checkSimulatorCache: set index of the last access
    addrTagVal,          \* checkSimulatorCache: tag of the last access
    verboseOut,          \* what -v prints for the last record: hit / miss / miss eviction
    evicted,             \* the line the last eviction overwrote, as it was before (or NoLine)
    dirtyVictims,        \* number of evictions so far whose overwritten line was dirty
    traceFile,           \* the records of the trace file when it is fixed in advance
    filePos,             \* number of records read so far
    prevAddress,         \* address decomposed before the last one, with its
    prevSVal,            \*   set index
    prevTagVal,          \*   and tag
    refImage,            \* the reference cache: lines stamped with a logical clock
    refClock,            \* the reference cache's clock
    refOut,              \* the reference cache's outcome of the last access
    refEvicted,          \* the tag the reference cache evicted at the last access
    iSignedSetBitCount,        \* main: atoi of -s, -1 when not given
    iSignedCacheLinesPerSet,   \* main: atoi of -E, -1 when not given
    iSignedBlockBitCount,      \* main: atoi of -b, -1 when not given
    inputTraceFile,      \* main: "NULL", or "open" when fopen of -t succeeded
    bHelpevoked,         \* main: -h was given
    bVerbose,            \* global: -v was given
    optsGiven,           \* the option letters getopt has returned so far
    scanResult,          \* what the last fscanf returned: the number of fields it assigned
    byteSize,            \* main: size of the record last read
    twinImage,           \* a second cache replaying the same ops and addresses,
    twinStats,           \*   its statistics,
    twinOut,             \*   its outcome of the last access,
    twinEvicted,         \*   the line its last eviction overwrote
    twinSize,            \*   and the size of the record it read last
    lastAccess           \* per line: the number of the last access that used the line

geometry == <<iSetBitCount, iCacheLinesPerSet, iBlockBitCount>>
mainVars == <<cacheImage, inputTraceStats, pc, memAccessType, memAddress,
              iMemAccessTypeFlag, addrSVal, addrTagVal, verboseOut, evicted,
              dirtyVictims, traceFile, filePos>>
prevVars == <<prevAddress, prevSVal, prevTagVal>>
refVars == <<refImage, refClock, refOut, refEvicted>>
optVars == <<iSignedSetBitCount, iSignedCacheLinesPerSet, iSignedBlockBitCount,
             inputTraceFile, bHelpevoked, bVerbose, optsGiven>>
scanVars == <<scanResult, byteSize>>
twinVars == <<twinImage, twinStats, twinOut, twinEvicted, twinSize>>
auxVars == <<optVars, scanVars, twinVars, lastAccess>>
vars == <<geometry, mainVars, prevVars, refVars, auxVars>>

(* ---------------------------------------------------------------------- *)
(* Unsigned arithmetic                                                     *)
(* ---------------------------------------------------------------------- *)
AllBits == 0..(ADDRESS_BITS_LEN - 1)

\* 1 << n for the small n of the replay geometries.
Pow2(n) == 2 ^ n

\* The value of an unsigned long whose 1 bits are below bit 31.
RECURSIVE ToNat(_)
ToNat(a) ==
    IF a = {} THEN 0
    ELSE LET i == CHOOSE k \in a : TRUE
         IN Pow2(i) + ToNat(a \ {i})

\* a >> n. A shift by the width or more is undefined in C: any value may result.
ShrOutcomes(a, n) ==
    IF n < ADDRESS_BITS_LEN
    THEN {{i - n : i \in {k \in a : k >= n}}}
    ELSE {{}, a, AllBits}

\* a << n, bits shifted out of the 64 dropped.
Shl(a, n) == {i + n : i \in a} \cap AllBits

\* The mask the loops build: (mask << 1) + 1, n times from 0.
OnesMask(n) == {k \in AllBits : k < n}

\* The 1 bits of a natural number below 2^31.
NatBits(n) == {i \in 0..30 : (n \div Pow2(i)) % 2 = 1}

\* The bits an unsigned int keeps.
UIntBits == 0..31

\* x - 1 and x + 1 on an unsigned int.
UIntDec(x) == IF x = -INT32_MAX - 1 THEN INT32_MAX ELSE x - 1
UIntInc(x) == IF x = INT32_MAX THEN -INT32_MAX - 1 ELSE x + 1

(* ---------------------------------------------------------------------- *)
(* The cache array                                                         *)
(* ---------------------------------------------------------------------- *)
NoLine == [slot |-> -1]

iSetCount == Pow2(iSetBitCount)
iRecentAccessRankValue == iCacheLinesPerSet

Slots == 0..(iCacheLinesPerSet - 1)
Sets == 0..(iSetCount - 1)
\* An index that leaves the set out: every set uses the first lines.
Idx_SetIgnored(set, j) == j

Idx(set, j) == (set * iCacheLinesPerSet) + j

\* calloc: every field of every line is zero.
ZeroLine == [iTag |-> {}, bDirtyFlag |-> 0, bValidFlag |-> CACHE_INVALID_FLAG,
             iRank |-> 0, dirtyEvictionCount |-> 0]

\* memset: the statistics are zero. dirty_bytes and dirty_evictions are kept as
\* the sets of their 1 bits, hits, misses and evictions as numbers.
ZeroStats == [hits |-> 0, misses |-> 0, evictions |-> 0,
              dirty_bytes |-> {}, dirty_evictions |-> {}]

\* The lowest slot of S, or -1 when S is empty: where a scanning for loop breaks.
FirstOf(S) == IF S = {} THEN -1 ELSE CHOOSE j \in S : \A k \in S : j <= k

(* ---------------------------------------------------------------------- *)
(* cacheLineRankUpdate: every valid line of the set but the accessed one   *)
(* has its rank decremented.                                               *)
(* ---------------------------------------------------------------------- *)
\* An update that runs over the valid lines of every set.
cacheLineRankUpdate_EverySet(cache, set, recentAccessIndex) ==
    [k \in DOMAIN cache |->
        IF /\ k # Idx(set, recentAccessIndex)
           /\ cache[k].bValidFlag = CACHE_VALID_FLAG
        THEN [cache[k] EXCEPT !.iRank = UIntDec(@)]
        ELSE cache[k]]

\* An update that leaves the ranks of the other lines as they were.
cacheLineRankUpdate_NoDecrement(cache, set, recentAccessIndex) == cache

cacheLineRankUpdate(cache, set, recentAccessIndex) ==
    [k \in DOMAIN cache |->
        IF \E i \in Slots : /\ k = Idx(set, i)
                            /\ i # recentAccessIndex
                            /\ cache[k].bValidFlag = CACHE_VALID_FLAG
        THEN [cache[k] EXCEPT !.iRank = UIntDec(@)]
        ELSE cache[k]]

(* ---------------------------------------------------------------------- *)
(* cacheEvictionHandler: counts the eviction, then overwrites the first    *)
(* line of the set whose rank is EVICTION_RANK_VAL, if there is one.       *)
(* ---------------------------------------------------------------------- *)
\* A handler that overwrites the most recently used line.
EvictionSlot_MostRecent(cache, set) ==
    FirstOf({j \in Slots : cache[Idx(set, j)].iRank = iRecentAccessRankValue})

EvictionSlot(cache, set) ==
    FirstOf({j \in Slots : cache[Idx(set, j)].iRank = EVICTION_RANK_VAL})

\* A handler that sets the dirty flag of the new access first and tests it after.
cacheEvictionHandler_FlagFirst(cache, stats, set, tag, type) ==
    LET j == EvictionSlot(cache, set)
        old == cache[Idx(set, j)]
        flag == IF type = 0 THEN 0 ELSE 1
        line == [old EXCEPT
                    !.iTag = tag,
                    !.iRank = iRecentAccessRankValue,
                    !.dirtyEvictionCount = IF flag = 1 THEN UIntInc(@) ELSE @,
                    !.bDirtyFlag = flag]
        counted == [stats EXCEPT !.evictions = @ + 1]
    IN  IF j = -1
        THEN [cache |-> cache, stats |-> counted,
              out |-> <<"miss", "eviction">>, evicted |-> NoLine]
        ELSE [cache |-> cacheLineRankUpdate(
                            [cache EXCEPT ![Idx(set, j)] = line], set, j),
              stats |-> counted,
              out |-> <<"miss", "eviction">>,
              evicted |-> [slot |-> j, iTag |-> old.iTag,
                           bDirtyFlag |-> old.bDirtyFlag]]

\* A handler that marks the overwritten line dirty whatever the access is.
cacheEvictionHandler_AlwaysDirty(cache, stats, set, tag, type) ==
    LET j == EvictionSlot(cache, set)
        old == cache[Idx(set, j)]
        line == [old EXCEPT
                    !.iTag = tag,
                    !.iRank = iRecentAccessRankValue,
                    !.dirtyEvictionCount =
                        IF old.bDirtyFlag = 1 THEN UIntInc(@) ELSE @,
                    !.bDirtyFlag = 1]
        counted == [stats EXCEPT !.evictions = @ + 1]
    IN  IF j = -1
        THEN [cache |-> cache, stats |-> counted,
              out |-> <<"miss", "eviction">>, evicted |-> NoLine]
        ELSE [cache |-> cacheLineRankUpdate(
                            [cache EXCEPT ![Idx(set, j)] = line], set, j),
              stats |-> counted,
              out |-> <<"miss", "eviction">>,
              evicted |-> [slot |-> j, iTag |-> old.iTag,
                           bDirtyFlag |-> old.bDirtyFlag]]

cacheEvictionHandler(cache, stats, set, tag, type) ==
    LET j == EvictionSlot(cache, set)
        old == cache[Idx(set, j)]
        line == [old EXCEPT
                    !.iTag = tag,
                    !.iRank = iRecentAccessRankValue,
                    !.dirtyEvictionCount =
                        IF old.bDirtyFlag = 1 THEN UIntInc(@) ELSE @,
                    !.bDirtyFlag = IF type = 0 THEN 0 ELSE 1]
        counted == [stats EXCEPT !.evictions = @ + 1]
    IN  IF j = -1
        THEN [cache |-> cache, stats |-> counted,
              out |-> <<"miss", "eviction">>, evicted |-> NoLine]
        ELSE [cache |-> cacheLineRankUpdate(
                            [cache EXCEPT ![Idx(set, j)] = line], set, j),
              stats |-> counted,
              out |-> <<"miss", "eviction">>,
              evicted |-> [slot |-> j, iTag |-> old.iTag,
                           bDirtyFlag |-> old.bDirtyFlag]]

(* ---------------------------------------------------------------------- *)
(* cacheMissHandler: counts the miss, fills the first invalid line of the  *)
(* set, and calls the eviction handler when the scan found none.           *)
(* ---------------------------------------------------------------------- *)
FillSlot(cache, set) ==
    FirstOf({j \in Slots : cache[Idx(set, j)].bValidFlag = CACHE_INVALID_FLAG})

\* A handler whose evictFlag is not reset by the fill: it stays set when a
\* valid slot was scanned before the invalid one.
cacheMissHandler_FlagKept(cache, stats, set, tag, type) ==
    LET j == FillSlot(cache, set)
        line == [cache[Idx(set, j)] EXCEPT
                    !.bValidFlag = CACHE_VALID_FLAG,
                    !.iTag = tag,
                    !.iRank = iRecentAccessRankValue,
                    !.bDirtyFlag = IF type = 1 THEN 1 ELSE 0]
        counted == [stats EXCEPT !.misses = @ + 1]
        filled == cacheLineRankUpdate(
                      [cache EXCEPT ![Idx(set, j)] = line], set, j)
    IN  IF j = 0
        THEN [cache |-> filled, stats |-> counted, out |-> <<"miss">>,
              evicted |-> NoLine]
        ELSE IF j > 0
        THEN cacheEvictionHandler(filled, counted, set, tag, type)
        ELSE IF Slots # {}
        THEN cacheEvictionHandler(cache, counted, set, tag, type)
        ELSE [cache |-> cache, stats |-> counted, out |-> <<"miss">>,
              evicted |-> NoLine]

cacheMissHandler(cache, stats, set, tag, type) ==
    LET j == FillSlot(cache, set)
        line == [cache[Idx(set, j)] EXCEPT
                    !.bValidFlag = CACHE_VALID_FLAG,
                    !.iTag = tag,
                    !.iRank = iRecentAccessRankValue,
                    !.bDirtyFlag = IF type = 1 THEN 1 ELSE 0]
        counted == [stats EXCEPT !.misses = @ + 1]
        evictFlag == j = -1 /\ Slots # {}
    IN  IF j # -1
        THEN [cache |-> cacheLineRankUpdate(
                            [cache EXCEPT ![Idx(set, j)] = line], set, j),
              stats |-> counted, out |-> <<"miss">>, evicted |-> NoLine]
        ELSE IF evictFlag
        THEN cacheEvictionHandler(cache, counted, set, tag, type)
        ELSE [cache |-> cache, stats |-> counted, out |-> <<"miss">>,
              evicted |-> NoLine]

(* ---------------------------------------------------------------------- *)
(* checkSimulatorCache                                                     *)
(* ---------------------------------------------------------------------- *)
\* addrSVal from memAddr >> iBlockBitCount, addrTagVal from
\* memAddr >> (iBlockBitCount + iSetBitCount): the shifted value and the mask.
\* A set mask of one bit too many.
SetIndexOf_WideMask(shifted) == shifted \cap OnesMask(iSetBitCount + 1)

SetIndexOf(shifted) == shifted \cap OnesMask(iSetBitCount)
TagOf(shifted) ==
    shifted \cap OnesMask(ADDRESS_BITS_LEN - (iSetBitCount + iBlockBitCount))

\* A scan that compares the tags without testing the valid flag.
HitSlot_NoValidTest(cache, set, tag) ==
    FirstOf({j \in Slots : cache[Idx(set, j)].iTag = tag})

\* A scan that compares the tag of the first slot only.
HitSlot_FirstSlotOnly(cache, set, tag) ==
    FirstOf({j \in Slots : /\ j = 0
                           /\ cache[Idx(set, j)].iTag = tag
                           /\ cache[Idx(set, j)].bValidFlag # CACHE_INVALID_FLAG})

\* The slot the scan of the set hits: the first valid line with the tag.
HitSlot(cache, set, tag) ==
    FirstOf({j \in Slots : /\ cache[Idx(set, j)].iTag = tag
                           /\ cache[Idx(set, j)].bValidFlag # CACHE_INVALID_FLAG})

\* A hit that assigns the access type to the dirty flag: a load clears it.
checkSimulatorCache_FlagAssigned(cache, stats, type, set, tag) ==
    LET j == HitSlot(cache, set, tag)
        ranked ==
            IF cache[Idx(set, j)].iRank # iRecentAccessRankValue
            THEN cacheLineRankUpdate(
                     [cache EXCEPT ![Idx(set, j)].iRank = iRecentAccessRankValue],
                     set, j)
            ELSE cache
    IN  IF j # -1
        THEN [cache |-> [ranked EXCEPT ![Idx(set, j)].bDirtyFlag = type],
              stats |-> [stats EXCEPT !.hits = @ + 1],
              out |-> <<"hit">>, evicted |-> NoLine]
        ELSE cacheMissHandler(cache, stats, set, tag, type)

\* The cache handler section, for the set and tag of the address.
checkSimulatorCache(cache, stats, type, set, tag) ==
    LET j == HitSlot(cache, set, tag)
        ranked ==
            IF cache[Idx(set, j)].iRank # iRecentAccessRankValue
            THEN cacheLineRankUpdate(
                     [cache EXCEPT ![Idx(set, j)].iRank = iRecentAccessRankValue],
                     set, j)
            ELSE cache
        dirtied ==
            IF type = 1
            THEN [ranked EXCEPT ![Idx(set, j)].bDirtyFlag = 1]
            ELSE ranked
    IN  IF j # -1
        THEN [cache |-> dirtied, stats |-> [stats EXCEPT !.hits = @ + 1],
              out |-> <<"hit">>, evicted |-> NoLine]
        ELSE cacheMissHandler(cache, stats, set, tag, type)

(* ---------------------------------------------------------------------- *)
(* main                                                                    *)
(* ---------------------------------------------------------------------- *)
\* The records of a trace: op and address (the size is read and not used).
\* The addresses replayed have their 1 bits among two positions: the two lowest
\* for the small blocks, the two above the block offset for the large ones.
AddrBits == IF iBlockBitCount < 2 THEN {0, 1}
            ELSE {iBlockBitCount, iBlockBitCount + 1}
Addresses == SUBSET AddrBits
Records == [op : {"L", "S"}, addr : Addresses]

\* The flag main derives from the op character; another character leaves it.
AccessFlag(op, flag) == IF op = "L" THEN 0 ELSE IF op = "S" THEN 1 ELSE flag

\* One turn of the fscanf loop: the record is read and replayed.
Replay(rec) ==
    /\ pc = "replay"
    /\ memAccessType' = rec.op
    /\ memAddress' = rec.addr
    /\ iMemAccessTypeFlag' = AccessFlag(rec.op, iMemAccessTypeFlag)
    /\ \E sh1 \in ShrOutcomes(rec.addr, iBlockBitCount),
          sh2 \in ShrOutcomes(rec.addr, iBlockBitCount + iSetBitCount) :
          LET set == SetIndexOf(sh1)
              tag == TagOf(sh2)
              r == checkSimulatorCache(cacheImage, inputTraceStats,
                                       AccessFlag(rec.op, iMemAccessTypeFlag),
                                       ToNat(set), tag)
          IN  /\ addrSVal' = set
              /\ addrTagVal' = tag
              /\ cacheImage' = r.cache
              /\ inputTraceStats' = r.stats
              /\ verboseOut' = r.out
              /\ evicted' = r.evicted
              /\ dirtyVictims' =
                    IF r.evicted # NoLine /\ r.evicted.bDirtyFlag = 1
                    THEN dirtyVictims + 1 ELSE dirtyVictims
    /\ filePos' = filePos + 1
    /\ UNCHANGED <<geometry, pc, traceFile>>

\* The two sums of the final loop over the array.
RECURSIVE DirtyLines(_, _)
DirtyLines(cache, n) ==
    IF n = 0 THEN 0
    ELSE DirtyLines(cache, n - 1) + (IF cache[n - 1].bDirtyFlag = 1 THEN 1 ELSE 0)

RECURSIVE DirtyEvictedLines(_, _)
DirtyEvictedLines(cache, n) ==
    IF n = 0 THEN 0
    ELSE DirtyEvictedLines(cache, n - 1) + cache[n - 1].dirtyEvictionCount

\* A summary that reports the count of lines, not of bytes.
TimesBlocksPerLine_CountOnly(count) == NatBits(count)

\* count * iBlocksPerLine, a product of two unsigned int: iBlocksPerLine is
\* 1 << iBlockBitCount, so the product is the count shifted left, cut to 32 bits.
TimesBlocksPerLine(count) ==
    {i + iBlockBitCount : i \in NatBits(count)} \cap UIntBits

\* fscanf found no further record: the final loop, the two products, printSummary.
Summarize ==
    /\ pc = "replay"
    /\ inputTraceStats' =
          [inputTraceStats EXCEPT
              !.dirty_bytes = TimesBlocksPerLine(
                  DirtyLines(cacheImage, iSetCount * iCacheLinesPerSet)),
              !.dirty_evictions = TimesBlocksPerLine(
                  DirtyEvictedLines(cacheImage, iSetCount * iCacheLinesPerSet))]
    /\ pc' = "done"
    /\ UNCHANGED <<geometry, cacheImage, memAccessType, memAddress,
                   iMemAccessTypeFlag, addrSVal, addrTagVal, verboseOut,
                   evicted, dirtyVictims, traceFile, filePos>>

\* The reference of the design notes: a cache of the same geometry that stamps
\* the accessed line with a strictly increasing clock and evicts the line with
\* the least stamp.
NoTag == {-1}
RefZeroLine == [iTag |-> {}, bDirtyFlag |-> 0, bValidFlag |-> 0, stamp |-> 0]

RefAccess(set, tag, type) ==
    LET at(j) == refImage[Idx(set, j)]
        hit == {j \in Slots : at(j).bValidFlag = 1 /\ at(j).iTag = tag}
        free == {j \in Slots : at(j).bValidFlag = 0}
        lru == CHOOSE j \in Slots : \A k \in Slots : at(j).stamp <= at(k).stamp
        now == refClock + 1
    IN  /\ refClock' = now
        /\ IF hit # {}
           THEN LET j == FirstOf(hit)
                IN  /\ refImage' = [refImage EXCEPT ![Idx(set, j)] =
                          [@ EXCEPT !.stamp = now,
                                    !.bDirtyFlag = IF type = 1 THEN 1 ELSE @]]
                    /\ refOut' = <<"hit">>
                    /\ refEvicted' = NoTag
           ELSE IF free # {}
           THEN LET j == FirstOf(free)
                IN  /\ refImage' = [refImage EXCEPT ![Idx(set, j)] =
                          [iTag |-> tag, bDirtyFlag |-> type, bValidFlag |-> 1,
                           stamp |-> now]]
                    /\ refOut' = <<"miss">>
                    /\ refEvicted' = NoTag
           ELSE /\ refImage' = [refImage EXCEPT ![Idx(set, lru)] =
                          [iTag |-> tag, bDirtyFlag |-> type, bValidFlag |-> 1,
                           stamp |-> now]]
                /\ refOut' = <<"miss", "eviction">>
                /\ refEvicted' = at(lru).iTag

\* The state main is in when it enters the fscanf loop with the given geometry.
\* memAddress is not initialised: addr0 is what it happens to hold.
Started(s, e, b, file, addr0) ==
    /\ iSetBitCount = s
    /\ iCacheLinesPerSet = e
    /\ iBlockBitCount = b
    /\ cacheImage = [k \in 0..(Pow2(s) * e - 1) |-> ZeroLine]
    /\ inputTraceStats = ZeroStats
    /\ pc = "replay"
    /\ memAccessType = "-"
    /\ memAddress = addr0
    /\ iMemAccessTypeFlag = 0
    /\ addrSVal = {}
    /\ addrTagVal = {}
    /\ verboseOut = <<>>
    /\ evicted = NoLine
    /\ dirtyVictims = 0
    /\ traceFile = file
    /\ filePos = 0
    /\ prevAddress = {}
    /\ prevSVal = {}
    /\ prevTagVal = {}
    /\ refImage = [k \in 0..(Pow2(s) * e - 1) |-> RefZeroLine]
    /\ refClock = 0
    /\ refOut = <<>>
    /\ refEvicted = NoTag
    /\ iSignedSetBitCount = s
    /\ iSignedCacheLinesPerSet = e
    /\ iSignedBlockBitCount = b
    /\ inputTraceFile = "open"
    /\ bHelpevoked = FALSE
    /\ bVerbose = FALSE
    /\ optsGiven = {"s", "E", "b", "t"}
    /\ scanResult = 0
    /\ byteSize = 0
    /\ twinImage = [k \in 0..(Pow2(s) * e - 1) |-> ZeroLine]
    /\ twinStats = ZeroStats
    /\ twinOut = <<>>
    /\ twinEvicted = NoLine
    /\ twinSize = 0
    /\ lastAccess = [k \in 0..(Pow2(s) * e - 1) |-> 0]

\* The same when every record of the trace is well formed: memAddress is
\* written before it is read, so what it holds at first does not matter.
Start(s, e, b, file) == Started(s, e, b, file, {})

(* ---------------------------------------------------------------------- *)
(* Spec: the replay of any trace of at most MaxTrace records, the records  *)
(* drawn as they are read.                                                 *)
(* ---------------------------------------------------------------------- *)
Init ==
    \E s \in SetBitCounts, e \in LinesPerSet, b \in BlockBitCounts :
        Start(s, e, b, <<>>)

ReadRecord ==
    /\ filePos < MaxTrace
    /\ \E rec \in Records : Replay(rec)
    /\ UNCHANGED <<prevVars, refVars, auxVars>>

EndOfTrace == Summarize /\ UNCHANGED <<prevVars, refVars, auxVars>>

Next == ReadRecord \/ EndOfTrace

Spec == Init /\ [][Next]_vars

(* ---------------------------------------------------------------------- *)
(* SpecRef: the same replay with the reference cache fed the same          *)
(* accesses.                                                               *)
(* ---------------------------------------------------------------------- *)
ReadRecordRef ==
    /\ filePos < MaxTrace
    /\ \E rec \in Records : Replay(rec)
    /\ RefAccess(ToNat(addrSVal'), addrTagVal', iMemAccessTypeFlag')
    /\ UNCHANGED <<prevVars, auxVars>>

NextRef == ReadRecordRef \/ EndOfTrace

SpecRef == Init /\ [][NextRef]_vars

(* ---------------------------------------------------------------------- *)
(* SpecFile: the replay of a trace file fixed in advance, of at most       *)
(* MaxFile loads into a cache of one set.                                  *)
(* ---------------------------------------------------------------------- *)
FileRecords == [op : {"L"}, addr : SUBSET {0, 1}]
Files == UNION {[1..n -> FileRecords] : n \in 0..MaxFile}

InitFile ==
    \E e \in LinesPerSet, file \in Files : Start(0, e, 0, file)

ReadFileRecord ==
    /\ filePos < Len(traceFile)
    /\ Replay(traceFile[filePos + 1])
    /\ UNCHANGED <<prevVars, refVars, auxVars>>

EndOfFile ==
    /\ filePos = Len(traceFile)
    /\ Summarize
    /\ UNCHANGED <<prevVars, refVars, auxVars>>

NextFile == ReadFileRecord \/ EndOfFile

SpecFile == InitFile /\ [][NextFile]_vars

(* ---------------------------------------------------------------------- *)
(* SpecAddr: the address decomposition of checkSimulatorCache applied to   *)
(* one address after another, for geometries up to the full width.         *)
(* ---------------------------------------------------------------------- *)
AddrSetBitCounts == {0, 1, 2}
AddrBlockBitCounts == {0, 1, 2, 62, 63, 64}
WideAddrBits == {0, 1, 2, 3, 63}

InitAddr ==
    \E s \in AddrSetBitCounts, b \in AddrBlockBitCounts :
        /\ s + b <= ADDRESS_BITS_LEN
        /\ Start(s, 1, b, <<>>)

Decompose ==
    /\ pc = "replay"
    /\ \E addr \in SUBSET WideAddrBits :
        /\ memAddress' = addr
        /\ \E sh1 \in ShrOutcomes(addr, iBlockBitCount),
              sh2 \in ShrOutcomes(addr, iBlockBitCount + iSetBitCount) :
              /\ addrSVal' = SetIndexOf(sh1)
              /\ addrTagVal' = TagOf(sh2)
    /\ prevAddress' = memAddress
    /\ prevSVal' = addrSVal
    /\ prevTagVal' = addrTagVal
    /\ UNCHANGED <<geometry, cacheImage, inputTraceStats, pc, memAccessType,
                   iMemAccessTypeFlag, verboseOut, evicted, dirtyVictims,
                   traceFile, filePos, refVars, auxVars>>

NextAddr == Decompose

SpecAddr == InitAddr /\ [][NextAddr]_vars

(* ====================================================================== *)
(* Properties                                                              *)
(* ====================================================================== *)
E == iCacheLinesPerSet
Line(set, j) == cacheImage[Idx(set, j)]
ValidSlots(set) == {j \in Slots : Line(set, j).bValidFlag = CACHE_VALID_FLAG}
Resident(set) == {Line(set, j).iTag : j \in ValidSlots(set)}

\* The tags of the records read so far from a fixed file (one set, no offset).
ReadTag(i) == traceFile[i].addr
FirstTagsDistinct(n) ==
    \A i, k \in 1..n : i # k => ReadTag(i) # ReadTag(k)
IsNewTag(i, n) == \A k \in 1..n : ReadTag(i) # ReadTag(k)

(* C1: LRU correctness. From an empty set, after E distinct tags t1..tE    *)
(* were accessed in that order, the access to a new tag evicts t1: t1 is   *)
(* no longer resident, the new tag is, and t2..tE still are. And when t2   *)
(* is hit after the set was filled and before the new tag is accessed, t2  *)
(* is still resident after the new access.                                 *)
C1_LruCorrectness ==
    /\ ( /\ filePos = E + 1
         /\ Len(traceFile) >= E + 1
         /\ FirstTagsDistinct(E)
         /\ IsNewTag(E + 1, E) )
       => /\ ReadTag(1) \notin Resident(0)
          /\ ReadTag(E + 1) \in Resident(0)
          /\ \A i \in 2..E : ReadTag(i) \in Resident(0)
          /\ evicted # NoLine /\ evicted.iTag = ReadTag(1)
    /\ ( /\ E >= 2
         /\ filePos = E + 2
         /\ Len(traceFile) >= E + 2
         /\ FirstTagsDistinct(E)
         /\ ReadTag(E + 1) = ReadTag(2)
         /\ IsNewTag(E + 2, E) )
       => ReadTag(2) \in Resident(0)

\* The second case of C1 for E = 3: three fills, the hit on t2, then a new tag
\* that misses into the full set.
C1_Witness ==
    /\ E = 3 /\ filePos = 5 /\ Len(traceFile) = 5 /\ FirstTagsDistinct(3)
    /\ ReadTag(4) = ReadTag(2) /\ IsNewTag(5, 3)
    /\ verboseOut = <<"miss", "eviction">>

(* C2: the decrementing ranks are equivalent to true LRU. At every access  *)
(* the cache and the reference cache, which stamps the accessed line with  *)
(* a strictly increasing clock and evicts the least stamp, have the same   *)
(* outcome (hit, fill or eviction) and the same evicted tag, and after it  *)
(* the same resident tags with the same dirty flags in every set.          *)
ResidentDirty(set) ==
    {<<Line(set, j).iTag, Line(set, j).bDirtyFlag>> : j \in ValidSlots(set)}
RefResidentDirty(set) ==
    {<<refImage[Idx(set, j)].iTag, refImage[Idx(set, j)].bDirtyFlag>> :
        j \in {k \in Slots : refImage[Idx(set, k)].bValidFlag = 1}}
EvictedTag == IF evicted = NoLine THEN NoTag ELSE evicted.iTag

C2_EquivalentToTrueLru ==
    /\ verboseOut = refOut
    /\ EvictedTag = refEvicted
    /\ \A set \in Sets : ResidentDirty(set) = RefResidentDirty(set)

(* C3: rank totality. In every set with k >= 1 valid lines the ranks of    *)
(* the valid lines are pairwise distinct and are exactly the range         *)
(* (E-k+1)..E; a full set holds exactly the ranks 1..E.                    *)
Ranks(set) == {Line(set, j).iRank : j \in ValidSlots(set)}

C3_RankTotality ==
    \A set \in Sets :
        LET k == Cardinality(ValidSlots(set))
        IN  k >= 1 =>
                /\ \A i, j \in ValidSlots(set) :
                       i # j => Line(set, i).iRank # Line(set, j).iRank
                /\ Ranks(set) = (E - k + 1)..E

(* A step of the replay loop, and what the access of that step found in    *)
(* the state before it: the set and the tag are those of the record read.  *)
IsAccess == filePos' = filePos + 1
AccSet == ToNat(addrSVal')
AccTag == addrTagVal'
IsStore == iMemAccessTypeFlag'
MatchSlots == {j \in ValidSlots(AccSet) : Line(AccSet, j).iTag = AccTag}
IsHit == IsAccess /\ MatchSlots # {}
IsMiss == IsAccess /\ MatchSlots = {}
SetFull == ValidSlots(AccSet) = Slots
LineAfter(set, j) == cacheImage'[Idx(set, j)]

(* C4: on every miss into a set whose slots are all valid, evictions is    *)
(* incremented by one and exactly one line of the set, the one with rank   *)
(* 1, which exists and is unique, gets the accessed tag, dirty = isStore   *)
(* and rank E, while every other line of the set has its rank decremented  *)
(* by one.                                                                 *)
RankOneSlots == {j \in Slots : Line(AccSet, j).iRank = EVICTION_RANK_VAL}

EvictionEffect ==
    (IsMiss /\ SetFull) =>
        /\ inputTraceStats'.evictions = inputTraceStats.evictions + 1
        /\ Cardinality(RankOneSlots) = 1
        /\ \A j \in RankOneSlots :
              /\ LineAfter(AccSet, j).iTag = AccTag
              /\ LineAfter(AccSet, j).bDirtyFlag = IsStore
              /\ LineAfter(AccSet, j).iRank = E
        /\ \A j \in Slots \ RankOneSlots :
              /\ LineAfter(AccSet, j).iTag = Line(AccSet, j).iTag
              /\ LineAfter(AccSet, j).iRank = UIntDec(Line(AccSet, j).iRank)

C4_EvictionEffect == [][EvictionEffect]_vars

(* C5: uniqueness. No set contains two valid lines with equal tags.        *)
C5_UniqueTags ==
    \A set \in Sets : \A i, j \in ValidSlots(set) :
        i # j => Line(set, i).iTag # Line(set, j).iTag

\* A full set of three lines with three tags, after an eviction and a hit.
C5_Witness ==
    /\ E = 3
    /\ Cardinality(Resident(0)) = 3
    /\ inputTraceStats.evictions >= 1
    /\ inputTraceStats.hits >= 1

(* C6: dirty accounting. A store that hits a clean line sets the line's    *)
(* dirty flag and leaves the dirty_bytes statistic alone, which is 0 as    *)
(* long as records are replayed; an eviction adds one to the               *)
(* dirtyEvictionCount of the victim's slot when the victim is dirty and    *)
(* nothing when it is clean, and leaves the slot's dirty flag equal to     *)
(* isStore of the access.                                                  *)
DirtyAccounting ==
    IsAccess =>
        /\ inputTraceStats.dirty_bytes = {}
        /\ inputTraceStats'.dirty_bytes = {}
        /\ (IsHit /\ IsStore = 1) =>
              \A j \in MatchSlots :
                  Line(AccSet, j).bDirtyFlag = 0 =>
                      LineAfter(AccSet, j).bDirtyFlag = 1
        /\ (IsMiss /\ SetFull) =>
              \A j \in RankOneSlots :
                  /\ LineAfter(AccSet, j).dirtyEvictionCount =
                        Line(AccSet, j).dirtyEvictionCount
                            + (IF Line(AccSet, j).bDirtyFlag = 1 THEN 1 ELSE 0)
                  /\ LineAfter(AccSet, j).bDirtyFlag = IsStore

C6_DirtyAccounting == [][DirtyAccounting]_vars

\* A load has just evicted a dirty line, after a store had hit.
C6_Witness ==
    /\ pc = "replay"
    /\ evicted # NoLine
    /\ evicted.bDirtyFlag = 1
    /\ iMemAccessTypeFlag = 0
    /\ Line(ToNat(addrSVal), evicted.slot).dirtyEvictionCount = 1
    /\ Line(ToNat(addrSVal), evicted.slot).bDirtyFlag = 0
    /\ inputTraceStats.hits >= 1

(* C7: final summary. After the trace is replayed, dirty_bytes is the      *)
(* number of lines that are valid and dirty times the block size, and      *)
(* dirty_evictions is the sum of dirtyEvictionCount over all lines times   *)
(* the block size, which is the block size times the number of evictions   *)
(* of the trace whose victim was dirty.                                    *)
\* n * blockSize with blockSize = 2^b, as the set of the 1 bits of the product.
TimesBlockSize(n) == {i + iBlockBitCount : i \in NatBits(n)}
ValidDirtyLines ==
    {k \in DOMAIN cacheImage :
        cacheImage[k].bValidFlag = 1 /\ cacheImage[k].bDirtyFlag = 1}
RECURSIVE SumCounts(_)
SumCounts(K) ==
    IF K = {} THEN 0
    ELSE LET k == CHOOSE x \in K : TRUE
         IN cacheImage[k].dirtyEvictionCount + SumCounts(K \ {k})

C7_FinalSummary ==
    pc = "done" =>
        /\ inputTraceStats.dirty_bytes =
              TimesBlockSize(Cardinality(ValidDirtyLines))
        /\ inputTraceStats.dirty_evictions =
              TimesBlockSize(SumCounts(DOMAIN cacheImage))
        /\ inputTraceStats.dirty_evictions = TimesBlockSize(dirtyVictims)

\* A summary of blocks of two bytes with a dirty line resident and a dirty
\* line evicted.
C7_Witness ==
    /\ pc = "done"
    /\ iBlockBitCount = 1
    /\ inputTraceStats.dirty_bytes = {1}
    /\ inputTraceStats.dirty_evictions = {1}

(* C8: address decomposition. For every address and every geometry with    *)
(* s + b no larger than the address width, setIndex is below setCount and  *)
(* is (addr >> b) & (setCount - 1), tag is addr >> (b + s), recombining    *)
(* (tag << (b + s)) | (setIndex << b) | blockOffset gives the address      *)
(* back, and two addresses have the same setIndex and tag exactly when     *)
(* they differ in the low b bits only.                                     *)
\* The bits of a at the positions lo..hi-1, moved down to position 0.
Field(a, lo, hi) == {i - lo : i \in {k \in a : lo <= k /\ k < hi}}
BlockOffset(a) == Field(a, 0, iBlockBitCount)
Recombine(tag, set, offset) ==
    Shl(tag, iBlockBitCount + iSetBitCount) \cup Shl(set, iBlockBitCount)
        \cup offset

C8_AddressDecomposition ==
    /\ ToNat(addrSVal) < 2 ^ iSetBitCount
    /\ addrSVal = Field(memAddress, iBlockBitCount,
                        iBlockBitCount + iSetBitCount)
    /\ addrTagVal = Field(memAddress, iBlockBitCount + iSetBitCount,
                          ADDRESS_BITS_LEN)
    /\ Recombine(addrTagVal, addrSVal, BlockOffset(memAddress)) = memAddress
    /\ (addrSVal = prevSVal /\ addrTagVal = prevTagVal)
          <=> (\A i \in AllBits :
                  i >= iBlockBitCount =>
                      (i \in memAddress <=> i \in prevAddress))

\* Two addresses in a row with the same set index and tag and different block
\* offsets, each of the three fields with a 1 bit.
C8_Witness ==
    /\ iSetBitCount = 1
    /\ iBlockBitCount = 2
    /\ addrSVal # {}
    /\ addrTagVal = {0, 60}
    /\ memAddress # prevAddress
    /\ BlockOffset(memAddress) # {}
    /\ addrSVal = prevSVal
    /\ addrTagVal = prevTagVal

\* A geometry of the full width: the shift by 64 is undefined and the mask of no
\* bits makes the tag 0 whatever the shift gives.
C8_WitnessFullWidth ==
    /\ iSetBitCount + iBlockBitCount = ADDRESS_BITS_LEN
    /\ iSetBitCount = 1
    /\ memAddress = {0, 63}
    /\ addrSVal = {0}
    /\ addrTagVal = {}

(* C9: every access resolves to exactly one of hit, fill and eviction.     *)
(* Each access adds one to exactly one of hits and misses; evictions gets  *)
(* one more exactly when the access misses and every slot of the addressed *)
(* set is valid, and is unchanged otherwise; so the three never decrease,  *)
(* hits + misses is the number of accesses processed and evictions is at   *)
(* most misses.                                                            *)
AccessResolves ==
    /\ IsAccess =>
        /\ \/ /\ inputTraceStats'.hits = inputTraceStats.hits + 1
              /\ inputTraceStats'.misses = inputTraceStats.misses
              /\ verboseOut' = <<"hit">>
           \/ /\ inputTraceStats'.hits = inputTraceStats.hits
              /\ inputTraceStats'.misses = inputTraceStats.misses + 1
              /\ verboseOut' \in {<<"miss">>, <<"miss", "eviction">>}
        /\ inputTraceStats'.evictions =
              inputTraceStats.evictions
                  + (IF IsMiss /\ SetFull THEN 1 ELSE 0)
        /\ (verboseOut' = <<"miss", "eviction">>) <=> (IsMiss /\ SetFull)
    /\ inputTraceStats'.hits >= inputTraceStats.hits
    /\ inputTraceStats'.misses >= inputTraceStats.misses
    /\ inputTraceStats'.evictions >= inputTraceStats.evictions
    /\ inputTraceStats'.hits + inputTraceStats'.misses = filePos'
    /\ inputTraceStats'.evictions <= inputTraceStats'.misses

C9_AccessResolves == [][AccessResolves]_vars

\* A hit, a fill and an eviction have all happened.
C9_Witness ==
    /\ inputTraceStats.hits >= 1
    /\ inputTraceStats.evictions >= 1
    /\ inputTraceStats.misses > inputTraceStats.evictions
    /\ filePos = MaxTrace

(* C10: hit effect. When an access finds a valid line with its tag, hits   *)
(* is incremented and misses and evictions are unchanged; no line's tag or *)
(* valid flag changes; the matched line's dirty flag becomes 1 when the    *)
(* access is a store and is unchanged when it is a load; no other line's   *)
(* dirty flag changes.                                                     *)
HitEffect ==
    IsHit =>
        /\ inputTraceStats'.hits = inputTraceStats.hits + 1
        /\ inputTraceStats'.misses = inputTraceStats.misses
        /\ inputTraceStats'.evictions = inputTraceStats.evictions
        /\ \A k \in DOMAIN cacheImage :
              /\ cacheImage'[k].iTag = cacheImage[k].iTag
              /\ cacheImage'[k].bValidFlag = cacheImage[k].bValidFlag
              /\ cacheImage'[k].bDirtyFlag =
                    IF k \in {Idx(AccSet, j) : j \in MatchSlots} /\ IsStore = 1
                    THEN 1
                    ELSE cacheImage[k].bDirtyFlag

C10_HitEffect == [][HitEffect]_vars

\* A load has just hit a dirty line that is not the only valid line of its set.
C10_Witness ==
    /\ verboseOut = <<"hit">>
    /\ iMemAccessTypeFlag = 0
    /\ Cardinality(ValidSlots(ToNat(addrSVal))) >= 2
    /\ \E j \in ValidSlots(ToNat(addrSVal)) :
          /\ Line(ToNat(addrSVal), j).iTag = addrTagVal
          /\ Line(ToNat(addrSVal), j).bDirtyFlag = 1

(* ---------------------------------------------------------------------- *)
(* C11. Fill effect: when an access misses and the addressed set has at    *)
(* least one invalid slot, exactly one previously invalid slot becomes     *)
(* valid with the accessed tag, dirty = isStore and rank = E; every other  *)
(* valid line of the set has its rank decremented by one and keeps its tag *)
(* and dirty flag; evictions and every dirtyEvictionCount are unchanged.   *)
(* ---------------------------------------------------------------------- *)
FilledSlots ==
    {j \in Slots : /\ Line(AccSet, j).bValidFlag = CACHE_INVALID_FLAG
                   /\ LineAfter(AccSet, j).bValidFlag = CACHE_VALID_FLAG}

FillEffect ==
    (IsMiss /\ ~SetFull) =>
        /\ \E j \in Slots :
              /\ FilledSlots = {j}
              /\ LineAfter(AccSet, j).iTag = AccTag
              /\ LineAfter(AccSet, j).bDirtyFlag = IsStore
              /\ LineAfter(AccSet, j).iRank = E
        /\ \A j \in ValidSlots(AccSet) :
              /\ LineAfter(AccSet, j).iRank = UIntDec(Line(AccSet, j).iRank)
              /\ LineAfter(AccSet, j).iTag = Line(AccSet, j).iTag
              /\ LineAfter(AccSet, j).bDirtyFlag = Line(AccSet, j).bDirtyFlag
              /\ LineAfter(AccSet, j).bValidFlag = CACHE_VALID_FLAG
        /\ inputTraceStats'.evictions = inputTraceStats.evictions
        /\ \A k \in DOMAIN cacheImage :
              cacheImage'[k].dirtyEvictionCount = cacheImage[k].dirtyEvictionCount

C11_FillEffect == [][FillEffect]_vars

\* A store has just filled a slot of a set that already held a valid line:
\* the new line is dirty with rank E, the older line has a smaller rank, and
\* nothing was evicted.
C11_Witness ==
    /\ verboseOut = <<"miss">>
    /\ iMemAccessTypeFlag = 1
    /\ inputTraceStats.evictions = 0
    /\ \E j, i \in ValidSlots(ToNat(addrSVal)) :
          /\ i # j
          /\ Line(ToNat(addrSVal), j).iTag = addrTagVal
          /\ Line(ToNat(addrSVal), j).bDirtyFlag = 1
          /\ Line(ToNat(addrSVal), j).iRank = E
          /\ Line(ToNat(addrSVal), i).iRank = E - 1

(* ---------------------------------------------------------------------- *)
(* C19. Per-line state machine: every line starts Invalid (rank 0, not     *)
(* dirty, dirtyEvictionCount 0); a line leaves Invalid only by a fill;     *)
(* once valid a line never becomes invalid again; a line goes from clean   *)
(* to dirty only by a store hit on it or by being the victim of a          *)
(* store-caused eviction, and from dirty to clean only by being the victim *)
(* of a load-caused eviction.                                              *)
(* ---------------------------------------------------------------------- *)
IsInvalid(line) == line.bValidFlag = CACHE_INVALID_FLAG
IsValidClean(line) == line.bValidFlag = CACHE_VALID_FLAG /\ line.bDirtyFlag = 0
IsValidDirty(line) == line.bValidFlag = CACHE_VALID_FLAG /\ line.bDirtyFlag = 1

\* The step fills line k: a miss into its set, which has an invalid slot, of
\* which k is the first.
FillOf(k) ==
    /\ IsMiss /\ ~SetFull
    /\ \E j \in Slots \ ValidSlots(AccSet) :
          /\ k = Idx(AccSet, j)
          /\ \A i \in Slots \ ValidSlots(AccSet) : j <= i

\* The step hits line k.
HitOf(k) == IsHit /\ \E j \in MatchSlots : k = Idx(AccSet, j)

\* The step evicts line k: a miss into its full set, of whose lines with rank
\* EVICTION_RANK_VAL k is the first.
VictimOf(k) ==
    /\ IsMiss /\ SetFull
    /\ \E j \in RankOneSlots :
          /\ k = Idx(AccSet, j)
          /\ \A i \in RankOneSlots : j <= i

LineStateMachine ==
    /\ filePos = 0 => \A k \in DOMAIN cacheImage : cacheImage[k] = ZeroLine
    /\ \A k \in DOMAIN cacheImage :
          LET old == cacheImage[k]
              new == cacheImage'[k]
          IN  /\ IsInvalid(old) \/ IsValidClean(old) \/ IsValidDirty(old)
              /\ IsInvalid(old) => old = ZeroLine
              /\ (IsInvalid(old) /\ ~IsInvalid(new)) => FillOf(k)
              /\ ~IsInvalid(old) => ~IsInvalid(new)
              /\ (IsValidClean(old) /\ IsValidDirty(new)) =>
                    \/ HitOf(k) /\ IsStore = 1
                    \/ VictimOf(k) /\ IsStore = 1
              /\ (IsValidDirty(old) /\ IsValidClean(new)) =>
                    VictimOf(k) /\ IsStore = 0

C19_LineStateMachine == [][LineStateMachine]_vars

\* A line has gone through every state: it was filled, made dirty, and then
\* overwritten by a load, which left it valid and clean; another line of the
\* cache is still invalid.
C19_Witness ==
    /\ evicted # NoLine
    /\ evicted.bDirtyFlag = 1
    /\ iMemAccessTypeFlag = 0
    /\ IsValidClean(Line(ToNat(addrSVal), evicted.slot))
    /\ \E k \in DOMAIN cacheImage : IsInvalid(cacheImage[k])

(* ---------------------------------------------------------------------- *)
(* C20. Residency after access: immediately after any access (hit, fill or *)
(* eviction) to (setIndex, tag), for every E >= 1, the addressed set       *)
(* contains a valid line holding that tag with rank E, so an immediately   *)
(* repeated access to the same block is a hit.                             *)
(* ---------------------------------------------------------------------- *)
C20_ResidentAfterAccess ==
    (pc = "replay" /\ filePos > 0) =>
        \E j \in ValidSlots(ToNat(addrSVal)) :
            /\ Line(ToNat(addrSVal), j).iTag = addrTagVal
            /\ Line(ToNat(addrSVal), j).iRank = E

(* ---------------------------------------------------------------------- *)
(* The command line: main's getopt loop, the error checks after it and the *)
(* allocation of the cache, followed by the replay of a short trace.       *)
(* ---------------------------------------------------------------------- *)
MaxConfigTrace == 2

\* What atoi makes of the arguments of -s, -E and -b.
SetBitArgs == -1..1
LinesArgs == -1..2
BlockBitArgs == -1..1

\* No cache: cacheImage is NULL.
NullImage == <<>>

\* x < 0 for an unsigned int x.
UIntNegative(x) == FALSE

\* The error checks without the test of the trace file.
InvalidParameters_NoFileTest ==
    \/ UIntNegative(iSetBitCount)
    \/ iSignedCacheLinesPerSet < 1
    \/ UIntNegative(iBlockBitCount)
    \/ iSignedSetBitCount < 0
    \/ iSignedBlockBitCount < 0

\* The condition of the general error checks.
InvalidParameters ==
    \/ UIntNegative(iSetBitCount)
    \/ iSignedCacheLinesPerSet < 1
    \/ inputTraceFile = "NULL"
    \/ UIntNegative(iBlockBitCount)
    \/ iSignedSetBitCount < 0
    \/ iSignedBlockBitCount < 0

\* main before the first call of getopt: the globals are zero.
InitConfig ==
    /\ iSetBitCount = 0
    /\ iCacheLinesPerSet = 0
    /\ iBlockBitCount = 0
    /\ cacheImage = NullImage
    /\ inputTraceStats = ZeroStats
    /\ pc = "getopt"
    /\ memAccessType = "-"
    /\ memAddress = {}
    /\ iMemAccessTypeFlag = 0
    /\ addrSVal = {}
    /\ addrTagVal = {}
    /\ verboseOut = <<>>
    /\ evicted = NoLine
    /\ dirtyVictims = 0
    /\ traceFile = <<>>
    /\ filePos = 0
    /\ prevAddress = {}
    /\ prevSVal = {}
    /\ prevTagVal = {}
    /\ refImage = <<>>
    /\ refClock = 0
    /\ refOut = <<>>
    /\ refEvicted = NoTag
    /\ iSignedSetBitCount = -1
    /\ iSignedCacheLinesPerSet = -1
    /\ iSignedBlockBitCount = -1
    /\ inputTraceFile = "NULL"
    /\ bHelpevoked = FALSE
    /\ bVerbose = FALSE
    /\ optsGiven = {}
    /\ scanResult = 0
    /\ byteSize = 0
    /\ twinImage = <<>>
    /\ twinStats = ZeroStats
    /\ twinOut = <<>>
    /\ twinEvicted = NoLine
    /\ twinSize = 0
    /\ lastAccess = <<>>

\* What the option loop leaves alone.
notOptions == <<mainVars, prevVars, refVars, scanVars, twinVars, lastAccess>>

OptHelp ==
    /\ pc = "getopt"
    /\ bHelpevoked' = TRUE
    /\ optsGiven' = optsGiven \cup {"h"}
    /\ UNCHANGED <<geometry, iSignedSetBitCount, iSignedCacheLinesPerSet,
                   iSignedBlockBitCount, inputTraceFile, bVerbose, notOptions>>

OptVerbose ==
    /\ pc = "getopt"
    /\ bVerbose' = TRUE
    /\ optsGiven' = optsGiven \cup {"v"}
    /\ UNCHANGED <<geometry, iSignedSetBitCount, iSignedCacheLinesPerSet,
                   iSignedBlockBitCount, inputTraceFile, bHelpevoked, notOptions>>

OptSetBits(n) ==
    /\ pc = "getopt"
    /\ iSignedSetBitCount' = n
    /\ iSetBitCount' = n
    /\ optsGiven' = optsGiven \cup {"s"}
    /\ UNCHANGED <<iCacheLinesPerSet, iBlockBitCount, iSignedCacheLinesPerSet,
                   iSignedBlockBitCount, inputTraceFile, bHelpevoked, bVerbose,
                   notOptions>>

OptLines(n) ==
    /\ pc = "getopt"
    /\ iSignedCacheLinesPerSet' = n
    /\ iCacheLinesPerSet' = n
    /\ optsGiven' = optsGiven \cup {"E"}
    /\ UNCHANGED <<iSetBitCount, iBlockBitCount, iSignedSetBitCount,
                   iSignedBlockBitCount, inputTraceFile, bHelpevoked, bVerbose,
                   notOptions>>

OptBlockBits(n) ==
    /\ pc = "getopt"
    /\ iSignedBlockBitCount' = n
    /\ iBlockBitCount' = n
    /\ optsGiven' = optsGiven \cup {"b"}
    /\ UNCHANGED <<iSetBitCount, iCacheLinesPerSet, iSignedSetBitCount,
                   iSignedCacheLinesPerSet, inputTraceFile, bHelpevoked, bVerbose,
                   notOptions>>

\* -t: fopen gives a stream or NULL.
OptTrace(stream) ==
    /\ pc = "getopt"
    /\ inputTraceFile' = stream
    /\ optsGiven' = optsGiven \cup {"t"}
    /\ UNCHANGED <<geometry, iSignedSetBitCount, iSignedCacheLinesPerSet,
                   iSignedBlockBitCount, bHelpevoked, bVerbose, notOptions>>

\* Any other option: a message only.
OptInvalid ==
    /\ pc = "getopt"
    /\ optsGiven' = optsGiven \cup {"?"}
    /\ UNCHANGED <<geometry, iSignedSetBitCount, iSignedCacheLinesPerSet,
                   iSignedBlockBitCount, inputTraceFile, bHelpevoked, bVerbose,
                   notOptions>>

\* getopt returns -1 and the error checks fail: return 1.
RejectParameters ==
    /\ pc = "getopt"
    /\ InvalidParameters
    /\ pc' = "exit1"
    /\ UNCHANGED <<geometry, cacheImage, inputTraceStats, memAccessType,
                   memAddress, iMemAccessTypeFlag, addrSVal, addrTagVal,
                   verboseOut, evicted, dirtyVictims, traceFile, filePos,
                   prevVars, refVars, auxVars>>

\* getopt returns -1, the error checks pass and calloc gives the cache.
AllocateCache ==
    /\ pc = "getopt"
    /\ ~InvalidParameters
    /\ cacheImage' = [k \in 0..(iSetCount * iCacheLinesPerSet - 1) |-> ZeroLine]
    /\ pc' = "replay"
    /\ UNCHANGED <<geometry, inputTraceStats, memAccessType,
                   memAddress, iMemAccessTypeFlag, addrSVal, addrTagVal,
                   verboseOut, evicted, dirtyVictims, traceFile, filePos,
                   prevVars, refVars, auxVars>>

\* The same, but calloc returns NULL: a message and return 1.
AllocationFails ==
    /\ pc = "getopt"
    /\ ~InvalidParameters
    /\ pc' = "exit1"
    /\ UNCHANGED <<geometry, cacheImage, inputTraceStats, memAccessType,
                   memAddress, iMemAccessTypeFlag, addrSVal, addrTagVal,
                   verboseOut, evicted, dirtyVictims, traceFile, filePos,
                   prevVars, refVars, auxVars>>

ReadConfigRecord ==
    /\ filePos < MaxConfigTrace
    /\ \E rec \in Records : Replay(rec)
    /\ UNCHANGED <<prevVars, refVars, auxVars>>

NextConfig ==
    \/ OptHelp
    \/ OptVerbose
    \/ \E n \in SetBitArgs : OptSetBits(n)
    \/ \E n \in LinesArgs : OptLines(n)
    \/ \E n \in BlockBitArgs : OptBlockBits(n)
    \/ \E stream \in {"NULL", "open"} : OptTrace(stream)
    \/ OptInvalid
    \/ RejectParameters
    \/ AllocateCache
    \/ AllocationFails
    \/ ReadConfigRecord
    \/ EndOfTrace

SpecConfig == InitConfig /\ [][NextConfig]_vars

(* ---------------------------------------------------------------------- *)
(* C12. Configuration errors are fatal before any simulation: if           *)
(* linesPerSet < 1, or setIndexBits or blockOffsetBits is negative or not  *)
(* supplied, or no trace source could be opened, the run ends with a       *)
(* non-zero exit status without allocating the cache, without processing   *)
(* any trace record and without producing a summary.                       *)
(* ---------------------------------------------------------------------- *)
ConfigurationError ==
    \/ "E" \in optsGiven /\ iSignedCacheLinesPerSet < 1
    \/ "s" \notin optsGiven
    \/ "s" \in optsGiven /\ iSignedSetBitCount < 0
    \/ "b" \notin optsGiven
    \/ "b" \in optsGiven /\ iSignedBlockBitCount < 0
    \/ "t" \notin optsGiven
    \/ "t" \in optsGiven /\ inputTraceFile = "NULL"

\* Once the option loop is over with such an error the program has returned 1
\* (the only state it can then be in, and one it never leaves), the cache is
\* not allocated, no record was read and no statistic was counted; the
\* summary is printed only on the way to "done".
C12_ConfigurationErrorsFatal ==
    (pc # "getopt" /\ ConfigurationError) =>
        /\ pc = "exit1"
        /\ cacheImage = NullImage
        /\ filePos = 0
        /\ verboseOut = <<>>
        /\ inputTraceStats = ZeroStats

\* The run was rejected though -E, -b and -t were given with good values and
\* the file was opened: only -s is missing.
C12_Witness ==
    /\ pc = "exit1"
    /\ "s" \notin optsGiven
    /\ {"E", "b", "t"} \subseteq optsGiven
    /\ iSignedCacheLinesPerSet >= 1
    /\ iSignedBlockBitCount >= 0
    /\ inputTraceFile = "open"
    /\ cacheImage = NullImage

\* The run was rejected because the trace file could not be opened.
C12_WitnessNoTrace ==
    /\ pc = "exit1"
    /\ {"s", "E", "b", "t"} \subseteq optsGiven
    /\ iSignedSetBitCount >= 0
    /\ iSignedCacheLinesPerSet >= 1
    /\ iSignedBlockBitCount >= 0
    /\ inputTraceFile = "NULL"

(* ---------------------------------------------------------------------- *)
(* The trace reader: one step per call of fscanf that returns more than 0. *)
(* The call assigns the fields it could convert, in the order op, address, *)
(* size, and returns their number; main tests the result for > 0 only.     *)
(* ---------------------------------------------------------------------- *)
MaxScan == 3

ScanSetBitCounts == {0, 1}
ScanLinesPerSet == 1..2
Sizes == 1..2
\* %c converts any character.
OpChars == {"L", "S", "X"}

InitScan ==
    \E s \in ScanSetBitCounts, e \in ScanLinesPerSet, addr0 \in SUBSET {0, 1} :
        Started(s, e, 0, <<>>, addr0)

\* fscanf converts all three fields.
ScanRecord ==
    /\ filePos < MaxScan
    /\ \E rec \in Records, size \in Sizes :
          /\ Replay(rec)
          /\ scanResult' = 3
          /\ byteSize' = size
    /\ UNCHANGED <<prevVars, refVars, optVars, twinVars, lastAccess>>

\* fscanf converts the op only, or the op and the address, and stops at the
\* input that does not match: the other arguments keep what they held.
ScanPartial ==
    /\ filePos < MaxScan
    /\ \E c \in OpChars, fields \in 1..2, addr \in Addresses :
          /\ Replay([op |-> c,
                     addr |-> IF fields >= 2 THEN addr ELSE memAddress])
          /\ scanResult' = fields
    /\ UNCHANGED <<byteSize, prevVars, refVars, optVars, twinVars, lastAccess>>

NextScan ==
    \/ ScanRecord
    \/ ScanPartial
    \/ EndOfTrace

SpecScan == InitScan /\ [][NextScan]_vars

(* ---------------------------------------------------------------------- *)
(* C13. Malformed trace records are skipped: a trace line for which not    *)
(* all three fields (op, hex address, size) parse never reaches the cache  *)
(* model: it causes no call of the access operation and changes no         *)
(* statistic and no cache line, and the records after it are still         *)
(* replayed.                                                               *)
(* ---------------------------------------------------------------------- *)
MalformedSkipped ==
    (IsAccess /\ scanResult' < 3) =>
        /\ cacheImage' = cacheImage
        /\ inputTraceStats' = inputTraceStats

C13_MalformedSkipped == [][MalformedSkipped]_vars

(* ---------------------------------------------------------------------- *)
(* Two runs side by side on traces that agree record by record in op and   *)
(* address and may differ in the sizes.  The first run is in main's        *)
(* variables, the second in the twin variables; the access flag is a       *)
(* function of the ops read so far, so one copy of it serves both.         *)
(* ---------------------------------------------------------------------- *)
MaxTwin == 3

TwinBlockBitCounts == {0, 1}
SizedRecords == [op : {"L", "S"}, addr : SUBSET {0, 1}, size : Sizes]

\* A call that takes the address of the last byte of the access.
ScannedAccess_LastByte(rec, flag) ==
    [type |-> AccessFlag(rec.op, flag),
     addr |-> rec.addr \cup NatBits(rec.size - 1)]

\* What main passes to checkSimulatorCache for a record: the access flag and
\* memAddress; byteSize is printed and nothing else.
ScannedAccess(rec, flag) ==
    [type |-> AccessFlag(rec.op, flag), addr |-> rec.addr]

\* The outcomes of that call on a cache and its statistics, with the set and
\* the tag it computed.
AccessResults(cache, stats, rec, flag) ==
    LET a == ScannedAccess(rec, flag)
    IN  {[set |-> SetIndexOf(sh1),
          tag |-> TagOf(sh2),
          r |-> checkSimulatorCache(cache, stats, a.type,
                                    ToNat(SetIndexOf(sh1)), TagOf(sh2))] :
            sh1 \in ShrOutcomes(a.addr, iBlockBitCount),
            sh2 \in ShrOutcomes(a.addr, iBlockBitCount + iSetBitCount)}

InitTwin ==
    \E s \in ScanSetBitCounts, e \in ScanLinesPerSet, b \in TwinBlockBitCounts :
        Start(s, e, b, <<>>)

ReadSizedPair ==
    /\ pc = "replay"
    /\ filePos < MaxTwin
    /\ \E rec \in SizedRecords, size2 \in Sizes :
          /\ memAccessType' = rec.op
          /\ memAddress' = rec.addr
          /\ byteSize' = rec.size
          /\ twinSize' = size2
          /\ iMemAccessTypeFlag' = AccessFlag(rec.op, iMemAccessTypeFlag)
          /\ \E m \in AccessResults(cacheImage, inputTraceStats, rec,
                                     iMemAccessTypeFlag),
                w \in AccessResults(twinImage, twinStats,
                                     [rec EXCEPT !.size = size2],
                                     iMemAccessTypeFlag) :
                /\ addrSVal' = m.set
                /\ addrTagVal' = m.tag
                /\ cacheImage' = m.r.cache
                /\ inputTraceStats' = m.r.stats
                /\ verboseOut' = m.r.out
                /\ evicted' = m.r.evicted
                /\ dirtyVictims' =
                      IF m.r.evicted # NoLine /\ m.r.evicted.bDirtyFlag = 1
                      THEN dirtyVictims + 1 ELSE dirtyVictims
                /\ twinImage' = w.r.cache
                /\ twinStats' = w.r.stats
                /\ twinOut' = w.r.out
                /\ twinEvicted' = w.r.evicted
    /\ filePos' = filePos + 1
    /\ scanResult' = 3
    /\ UNCHANGED <<geometry, pc, traceFile, prevVars, refVars, optVars,
                   lastAccess>>

EndOfTwin ==
    /\ Summarize
    /\ twinStats' =
          [twinStats EXCEPT
              !.dirty_bytes = TimesBlocksPerLine(
                  DirtyLines(twinImage, iSetCount * iCacheLinesPerSet)),
              !.dirty_evictions = TimesBlocksPerLine(
                  DirtyEvictedLines(twinImage, iSetCount * iCacheLinesPerSet))]
    /\ UNCHANGED <<twinImage, twinOut, twinEvicted, twinSize,
                   prevVars, refVars, optVars, scanVars, lastAccess>>

NextTwin ==
    \/ ReadSizedPair
    \/ EndOfTwin

SpecTwin == InitTwin /\ [][NextTwin]_vars

(* ---------------------------------------------------------------------- *)
(* C14. The size field is ignored: two traces that are equal record by     *)
(* record in op and address but differ in the declared sizes produce the   *)
(* same cache state after every record and the same five final statistics. *)
(* ---------------------------------------------------------------------- *)
C14_SizeIgnored ==
    /\ twinImage = cacheImage
    /\ twinOut = verboseOut
    /\ twinStats.hits = inputTraceStats.hits
    /\ twinStats.misses = inputTraceStats.misses
    /\ twinStats.evictions = inputTraceStats.evictions
    /\ twinStats.dirty_bytes = inputTraceStats.dirty_bytes
    /\ twinStats.dirty_evictions = inputTraceStats.dirty_evictions

\* Both runs have ended; the last records differed in size, and the runs saw
\* a hit, an eviction of a dirty line and a dirty line left in the cache.
C14_Witness ==
    /\ pc = "done"
    /\ byteSize # twinSize
    /\ inputTraceStats.hits >= 1
    /\ inputTraceStats.evictions >= 1
    /\ inputTraceStats.dirty_bytes # {}
    /\ twinStats.dirty_evictions # {}

(* ---------------------------------------------------------------------- *)
(* Short trace files over the addresses 0, 1 and 16, replayed from an      *)
(* empty cache under geometries with one or two sets, one or two lines per *)
(* set and blocks of 1 or 16 bytes.                                        *)
(* ---------------------------------------------------------------------- *)
MaxScenario == 3

ScenarioBlockBitCounts == {0, 4}
ScenarioRecords == [op : {"L", "S"}, addr : {{}, {0}, {4}}]
ScenarioFiles == UNION {[1..n -> ScenarioRecords] : n \in 0..MaxScenario}

InitScenario ==
    \E s \in ScanSetBitCounts, e \in ScanLinesPerSet,
       b \in ScenarioBlockBitCounts, file \in ScenarioFiles :
        Start(s, e, b, file)

SpecScenario == InitScenario /\ [][NextFile]_vars

\* Set index and tag of the i-th record of the file.
RecordSet(i) ==
    Field(traceFile[i].addr, iBlockBitCount, iBlockBitCount + iSetBitCount)
RecordTag(i) ==
    Field(traceFile[i].addr, iBlockBitCount + iSetBitCount, ADDRESS_BITS_LEN)

HasGeometry(s, e, b) ==
    iSetBitCount = s /\ iCacheLinesPerSet = e /\ iBlockBitCount = b

(* ---------------------------------------------------------------------- *)
(* C15. End-to-end scenario: with s=1, E=1, b=0 and an initially empty     *)
(* cache, the trace L 0, L 1, L 0 yields miss, miss, hit with              *)
(* evictions = 0 (addresses 0 and 1 map to different sets); more generally *)
(* accesses that map to different sets never evict each other.             *)
(* ---------------------------------------------------------------------- *)
StartsWithL0L1L0 ==
    /\ Len(traceFile) >= 3
    /\ traceFile[1] = [op |-> "L", addr |-> {}]
    /\ traceFile[2] = [op |-> "L", addr |-> {0}]
    /\ traceFile[3] = [op |-> "L", addr |-> {}]

C15_EndToEnd ==
    /\ (HasGeometry(1, 1, 0) /\ StartsWithL0L1L0) =>
          /\ filePos = 1 =>
                /\ verboseOut = <<"miss">>
                /\ inputTraceStats.misses = 1
          /\ filePos = 2 =>
                /\ verboseOut = <<"miss">>
                /\ inputTraceStats.misses = 2
                /\ addrSVal # RecordSet(1)
          /\ filePos = 3 =>
                /\ verboseOut = <<"hit">>
                /\ inputTraceStats.hits = 1
                /\ inputTraceStats.misses = 2
                /\ inputTraceStats.evictions = 0
    /\ evicted # NoLine =>
          \E i \in 1..(filePos - 1) :
              /\ RecordSet(i) = RecordSet(filePos)
              /\ RecordTag(i) = evicted.iTag
    /\ (\A i, k \in 1..filePos : i # k => RecordSet(i) # RecordSet(k)) =>
          inputTraceStats.evictions = 0

\* The third record of the scenario has just been read and hit.
C15_Witness ==
    /\ HasGeometry(1, 1, 0)
    /\ StartsWithL0L1L0
    /\ filePos = 3
    /\ pc = "replay"
    /\ verboseOut = <<"hit">>
    /\ inputTraceStats.evictions = 0

(* ---------------------------------------------------------------------- *)
(* C16. Dirty eviction scenario: with s=0, E=1, b=4 and an initially empty *)
(* cache, the trace S 0, L 16 yields misses = 2, hits = 0, evictions = 1,  *)
(* the slot's dirtyEvictionCount = 1, and a final summary of               *)
(* dirtyEvictionBytes = 16 and dirtyBytes = 0 (the line refilled by the    *)
(* load is clean).                                                         *)
(* ---------------------------------------------------------------------- *)
IsS0L16 ==
    traceFile = <<[op |-> "S", addr |-> {}], [op |-> "L", addr |-> {4}]>>

C16_DirtyEvictionScenario ==
    (HasGeometry(0, 1, 4) /\ IsS0L16) =>
        /\ filePos = 1 =>
              /\ verboseOut = <<"miss">>
              /\ cacheImage[0].bDirtyFlag = 1
        /\ filePos = 2 =>
              /\ verboseOut = <<"miss", "eviction">>
              /\ inputTraceStats.misses = 2
              /\ inputTraceStats.hits = 0
              /\ inputTraceStats.evictions = 1
              /\ cacheImage[0].dirtyEvictionCount = 1
              /\ cacheImage[0].bDirtyFlag = 0
        /\ pc = "done" =>
              /\ inputTraceStats.dirty_evictions = NatBits(16)
              /\ inputTraceStats.dirty_bytes = NatBits(0)

\* The summary of the scenario has been computed.
C16_Witness ==
    /\ HasGeometry(0, 1, 4)
    /\ IsS0L16
    /\ pc = "done"
    /\ inputTraceStats.evictions = 1
    /\ inputTraceStats.dirty_evictions = {4}

(* ---------------------------------------------------------------------- *)
(* The replay with a history of the accesses: lastAccess holds, for every  *)
(* line, the number of the last record that hit, filled or overwrote it.   *)
(* ---------------------------------------------------------------------- *)
InitRecency ==
    \E e \in LinesPerSet : Start(0, e, 0, <<>>)

\* The slot the access uses: the line hit, else the line filled, else the
\* line overwritten by the eviction handler, if it found one.
UsedSlot(cache, set, tag, victim) ==
    IF HitSlot(cache, set, tag) # -1 THEN HitSlot(cache, set, tag)
    ELSE IF FillSlot(cache, set) # -1 THEN FillSlot(cache, set)
    ELSE victim.slot

ReadRecordRecency ==
    /\ filePos < MaxTrace
    /\ \E rec \in Records : Replay(rec)
    /\ LET set == ToNat(addrSVal')
           j == UsedSlot(cacheImage, set, addrTagVal', evicted')
       IN  lastAccess' = IF j = -1
                         THEN lastAccess
                         ELSE [lastAccess EXCEPT ![Idx(set, j)] = filePos + 1]
    /\ UNCHANGED <<prevVars, refVars, optVars, scanVars, twinVars>>

NextRecency ==
    \/ ReadRecordRecency
    \/ EndOfTrace

SpecRecency == InitRecency /\ [][NextRecency]_vars

\* a < b for two unsigned int values.
UIntLess(a, b) == IF (a < 0) = (b < 0) THEN a < b ELSE b < 0

(* ---------------------------------------------------------------------- *)
(* C17. Recency ordering: after any sequence of accesses, within every set *)
(* the order of the valid lines by rank equals their order by time of last *)
(* access (the most recently accessed valid line has rank E and, for any   *)
(* two valid lines, the one accessed more recently has the strictly        *)
(* greater rank), so the valid line with the smallest rank is the least    *)
(* recently used one.                                                      *)
(* ---------------------------------------------------------------------- *)
C17_RecencyOrdering ==
    \A set \in Sets :
        \A i \in ValidSlots(set) :
            /\ (\A j \in ValidSlots(set) :
                    lastAccess[Idx(set, j)] <= lastAccess[Idx(set, i)])
                  => Line(set, i).iRank = E
            /\ \A j \in ValidSlots(set) :
                  lastAccess[Idx(set, j)] < lastAccess[Idx(set, i)]
                      => UIntLess(Line(set, j).iRank, Line(set, i).iRank)

(* ---------------------------------------------------------------------- *)
(* The source cache next to a variant of it that updates the ranks on      *)
(* every hit: the twin variables hold the variant's cache, statistics and  *)
(* outcomes, and both are fed the same accesses.                           *)
(* ---------------------------------------------------------------------- *)
\* The cache handler without the guard on the recency update: a hit always
\* sets the line's rank to E and decrements every other valid line of the set.
UnguardedCache(cache, stats, type, set, tag) ==
    LET j == HitSlot(cache, set, tag)
        ranked ==
            cacheLineRankUpdate(
                [cache EXCEPT ![Idx(set, j)].iRank = iRecentAccessRankValue],
                set, j)
        dirtied ==
            IF type = 1
            THEN [ranked EXCEPT ![Idx(set, j)].bDirtyFlag = 1]
            ELSE ranked
    IN  IF j # -1
        THEN [cache |-> dirtied, stats |-> [stats EXCEPT !.hits = @ + 1],
              out |-> <<"hit">>, evicted |-> NoLine]
        ELSE cacheMissHandler(cache, stats, set, tag, type)

InitGuard ==
    \E s \in SetBitCounts, e \in LinesPerSet : Start(s, e, 0, <<>>)

ReadRecordGuard ==
    /\ filePos < MaxTrace
    /\ \E rec \in Records : Replay(rec)
    /\ LET w == UnguardedCache(twinImage, twinStats, iMemAccessTypeFlag',
                               ToNat(addrSVal'), addrTagVal')
       IN  /\ twinImage' = w.cache
           /\ twinStats' = w.stats
           /\ twinOut' = w.out
           /\ twinEvicted' = w.evicted
    /\ UNCHANGED <<twinSize, prevVars, refVars, optVars, scanVars, lastAccess>>

NextGuard ==
    \/ ReadRecordGuard
    \/ EndOfTwin

SpecGuard == InitGuard /\ [][NextGuard]_vars

TwinEvictedTag == IF twinEvicted = NoLine THEN NoTag ELSE twinEvicted.iTag

(* ---------------------------------------------------------------------- *)
(* C18. The guard on the hit-path recency update is redundant: a variant   *)
(* of the cache that on every hit unconditionally sets the hit line's rank *)
(* to E and decrements every other valid line's rank in the set has, for   *)
(* every geometry and every trace, the same per-access outcomes (hit,      *)
(* fill, eviction and evicted tag) and the same final statistics as the    *)
(* source, which performs the update only when the hit line's rank is not  *)
(* already E.                                                              *)
(* ---------------------------------------------------------------------- *)
C18_GuardRedundant ==
    /\ twinOut = verboseOut
    /\ TwinEvictedTag = EvictedTag
    /\ twinStats = inputTraceStats

(* ---------------------------------------------------------------------- *)
(* C21. No rank underflow: the rank of every valid line stays in 1..E      *)
(* after any sequence of accesses; the decrement in the recency update is  *)
(* never applied to a line whose unsigned rank is 0, so no rank wraps      *)
(* around to the maximum unsigned value.                                   *)
(* ---------------------------------------------------------------------- *)
C21_NoRankUnderflow ==
    \A set \in Sets :
        \A j \in ValidSlots(set) :
            /\ Line(set, j).iRank >= 1
            /\ Line(set, j).iRank <= E

(* ---------------------------------------------------------------------- *)
(* C22. Set isolation: an access whose address maps to set i changes only  *)
(* lines of set i; the tag, valid flag, dirty flag, rank and               *)
(* dirtyEvictionCount of every line in every other set are unchanged.      *)
(* ---------------------------------------------------------------------- *)
LinesOfSet(set) == {Idx(set, j) : j \in Slots}

SetIsolation ==
    IsAccess =>
        \A k \in DOMAIN cacheImage \ LinesOfSet(AccSet) :
            /\ cacheImage'[k].iTag = cacheImage[k].iTag
            /\ cacheImage'[k].bValidFlag = cacheImage[k].bValidFlag
            /\ cacheImage'[k].bDirtyFlag = cacheImage[k].bDirtyFlag
            /\ cacheImage'[k].iRank = cacheImage[k].iRank
            /\ cacheImage'[k].dirtyEvictionCount = cacheImage[k].dirtyEvictionCount

C22_SetIsolation == [][SetIsolation]_vars

\* An access has just evicted a line of one set while the other set holds a
\* valid dirty line whose rank is still E.
C22_Witness ==
    /\ iSetBitCount = 1
    /\ verboseOut = <<"miss", "eviction">>
    /\ evicted # NoLine
    /\ \E set \in Sets \ {ToNat(addrSVal)} :
          \E j \in ValidSlots(set) :
              /\ Line(set, j).bDirtyFlag = 1
              /\ Line(set, j).iRank = E

(* ---------------------------------------------------------------------- *)
(* C23. Dirty implies valid: in every reachable state a line whose dirty   *)
(* flag is set is valid, and a line with dirtyEvictionCount > 0 is valid;  *)
(* hence the final pass, which counts dirty flags without testing the      *)
(* valid flag, counts exactly the valid-and-dirty lines.                   *)
(* ---------------------------------------------------------------------- *)
C23_DirtyImpliesValid ==
    /\ \A k \in DOMAIN cacheImage :
          /\ cacheImage[k].bDirtyFlag = 1 =>
                cacheImage[k].bValidFlag = CACHE_VALID_FLAG
          /\ cacheImage[k].dirtyEvictionCount # 0 =>
                cacheImage[k].bValidFlag = CACHE_VALID_FLAG
    /\ DirtyLines(cacheImage, iSetCount * iCacheLinesPerSet)
          = Cardinality(ValidDirtyLines)

\* The final pass has run over a cache with a dirty line, a line that has
\* had a dirty eviction, and a line that was never filled.
C23_Witness ==
    /\ pc = "done"
    /\ \E k \in DOMAIN cacheImage : cacheImage[k].bDirtyFlag = 1
    /\ \E k \in DOMAIN cacheImage : cacheImage[k].dirtyEvictionCount # 0
    /\ \E k \in DOMAIN cacheImage :
          cacheImage[k].bValidFlag = CACHE_INVALID_FLAG

====
